---- MODULE Spec2Model ----
(***************************************************************************)
(* Model of src/backend/app.py: the in-memory job registry (job_queue),    *)
(* the per-job worker thread (process_transcription), the categorization   *)
(* service with its two expiring caches, and the read routes.              *)
(*                                                                         *)
(* Every Python statement that touches shared state is one atomic step     *)
(* (threads interleave between statements).  Wall-clock time is the        *)
(* variable now, in hours; None is the empty tuple and a present optional  *)
(* value v is <<v>>.  Text is a tuple of one-character strings.            *)
(***************************************************************************)
EXTENDS Integers, Sequences, FiniteSets, TLC

\* ------------------------------------------------------------------ bounds
MaxJobs == 1
MaxConcurrentJobs == 2
MaxTime == 24
TickHours == 12
NumCallers == 2
MaxCalls == 3

\* ------------------------------------------------------- program constants
processing_steps == 3
CACHE_TTL_HOURS == 24
KEY_PREFIX_LEN == 100
FALLBACK_CONFIDENCE == 50

PENDING == "pending"
PROCESSING == "processing"
COMPLETED == "completed"
FAILED == "failed"

None == << >>
Some(v) == << v >>

\* A test that tells only None from a string, as "is not None" does.
is_not_None(opt) == opt # << >>

\* Python truthiness of an optional string: None and "" are false.
Truthy(opt) == opt # None /\ opt[1] # ""

\* ------------------------------------------------------------------- text

\* The three transcriptions of random.choice at lines 125-129.
TranscriptCars ==
  <<
    "I","'","v","e"," ","a","l","w","a","y","s"," ","b","e","e","n"," ","f","a","s","c","i","n",
    "a","t","e","d"," ","b","y"," ","c","a","r","s",","," ","e","s","p","e","c","i","a","l","l",
    "y"," ","c","l","a","s","s","i","c"," ","m","u","s","c","l","e"," ","c","a","r","s"," ","f",
    "r","o","m"," ","t","h","e"," ","6","0","s"," ","a","n","d"," ","7","0","s","."," ","T","h",
    "e"," ","r","a","w"," ","p","o","w","e","r"," ","a","n","d"," ","b","e","a","u","t","i","f",
    "u","l"," ","d","e","s","i","g","n"," ","o","f"," ","t","h","o","s","e"," ","v","e","h","i",
    "c","l","e","s"," ","i","s"," ","j","u","s","t"," ","i","n","c","r","e","d","i","b","l","e",
    "." >>

TranscriptEagles ==
  <<
    "B","a","l","d"," ","e","a","g","l","e","s"," ","a","r","e"," ","s","u","c","h"," ","m","a",
    "j","e","s","t","i","c"," ","c","r","e","a","t","u","r","e","s","."," ","I"," ","l","o","v",
    "e"," ","w","a","t","c","h","i","n","g"," ","t","h","e","m"," ","s","o","a","r"," ","t","h",
    "r","o","u","g","h"," ","t","h","e"," ","s","k","y"," ","a","n","d"," ","d","i","v","e"," ",
    "d","o","w","n"," ","t","o"," ","c","a","t","c","h"," ","f","i","s","h","."," ","T","h","e",
    "i","r"," ","w","h","i","t","e"," ","h","e","a","d","s"," ","a","g","a","i","n","s","t"," ",
    "t","h","e"," ","b","l","u","e"," ","s","k","y"," ","i","s"," ","a"," ","s","i","g","h","t",
    " ","I","'","l","l"," ","n","e","v","e","r"," ","f","o","r","g","e","t","." >>

TranscriptDiving ==
  <<
    "D","e","e","p"," ","s","e","a"," ","d","i","v","i","n","g"," ","o","p","e","n","s"," ","u",
    "p"," ","a"," ","w","h","o","l","e"," ","n","e","w"," ","w","o","r","l","d"," ","o","f"," ",
    "e","x","p","l","o","r","a","t","i","o","n","."," ","T","h","e"," ","m","y","s","t","e","r",
    "i","o","u","s"," ","c","r","e","a","t","u","r","e","s"," ","a","n","d"," ","s","t","u","n",
    "n","i","n","g"," ","c","o","r","a","l"," ","r","e","e","f","s"," ","y","o","u"," ","e","n",
    "c","o","u","n","t","e","r"," ","a","t"," ","t","h","o","s","e"," ","d","e","p","t","h","s",
    " ","a","r","e"," ","u","n","l","i","k","e"," ","a","n","y","t","h","i","n","g"," ","e","l",
    "s","e"," ","o","n"," ","E","a","r","t","h","." >>

Whitespace == {" ", "\t", "\n", "\r"}

UpperToLower ==
  [c \in {"A","B","C","D","E","I","S","T","X"} |->
     CASE c = "A" -> "a" [] c = "B" -> "b" [] c = "C" -> "c" [] c = "D" -> "d"
       [] c = "E" -> "e" [] c = "I" -> "i" [] c = "S" -> "s" [] c = "T" -> "t"
       [] c = "X" -> "x"]

\* str.lower(), over the characters the model's texts use
lower(s) == [i \in 1..Len(s) |-> IF s[i] \in DOMAIN UpperToLower THEN UpperToLower[s[i]] ELSE s[i]]

RECURSIVE lstrip(_)
lstrip(s) == IF s # << >> /\ Head(s) \in Whitespace THEN lstrip(Tail(s)) ELSE s

RECURSIVE rstrip(_)
rstrip(s) ==
  IF s # << >> /\ s[Len(s)] \in Whitespace THEN rstrip(SubSeq(s, 1, Len(s) - 1)) ELSE s

\* str.strip()
strip(s) == rstrip(lstrip(s))

\* s[:n]
prefix(s, n) == SubSeq(s, 1, IF Len(s) < n THEN Len(s) ELSE n)

\* word in s
contains(s, w) == \E i \in 1..(Len(s) - Len(w) + 1) : SubSeq(s, i, i + Len(w) - 1) = w

\* any(word in text.lower() for word in words)
any_word(text, words) == \E w \in words : contains(lower(text), w)

\* line 180: transcription_string[:100].strip().lower()
cache_key(text) == lower(strip(prefix(text, KEY_PREFIX_LEN)))

\* Texts of the direct calls.  TextA and TextB differ in case, in outer blanks
\* and after their first 100 characters, and in nothing else.
TextEmpty == << >>

TextA == << " " >> \o [i \in 1..(KEY_PREFIX_LEN - 4) |-> "X"] \o <<"C","a","r">> \o <<" ","s","e","a">>

TextB == [i \in 1..(KEY_PREFIX_LEN - 4) |-> "x"] \o <<"c","a","r"," ">> \o <<"s","k","y">>

\* ------------------------------------------- keyword lists of the classifiers
OPENAI_AUTOMOTIVE ==
    {<<"c","a","r">>,
     <<"m","u","s","c","l","e">>,
     <<"p","o","w","e","r">>,
     <<"v","e","h","i","c","l","e">>}

OPENAI_WILDLIFE ==
    {<<"e","a","g","l","e">>,
     <<"b","i","r","d">>,
     <<"s","k","y">>,
     <<"s","o","a","r">>,
     <<"c","r","e","a","t","u","r","e">>}

OPENAI_OCEAN ==
    {<<"s","e","a">>,
     <<"d","i","v","i","n","g">>,
     <<"o","c","e","a","n">>,
     <<"c","o","r","a","l">>,
     <<"d","e","p","t","h","s">>}

ANTHROPIC_TRANSPORT ==
    {<<"c","a","r">>,
     <<"v","e","h","i","c","l","e">>,
     <<"d","r","i","v","e">>,
     <<"r","o","a","d">>}

ANTHROPIC_ANIMALS ==
    {<<"a","n","i","m","a","l">>,
     <<"b","i","r","d">>,
     <<"c","r","e","a","t","u","r","e">>,
     <<"w","i","l","d","l","i","f","e">>,
     <<"e","a","g","l","e">>}

ANTHROPIC_MARINE ==
    {<<"o","c","e","a","n">>,
     <<"s","e","a">>,
     <<"w","a","t","e","r">>,
     <<"m","a","r","i","n","e">>,
     <<"d","i","v","e">>}


\* ------------------------------------------------- categorization provider
OPENAI == "openai"
ANTHROPIC == "anthropic"
Providers == {OPENAI, ANTHROPIC}

Sentiments == {"positive", "neutral", "negative"}

\* round(random.uniform(lo, hi), 2) in hundredths: the two ends of each range
OpenAIConfidence == {70, 95}
AnthropicConfidence == {65, 90}

\* What one run of the classifier draws: its random sentiment and confidence,
\* or an exception raised inside its try block (lines 222-284).
LLMOutcomes(provider) ==
  [kind : {"ok"}, sentiment : Sentiments,
   confidence : IF provider = OPENAI THEN OpenAIConfidence ELSE AnthropicConfidence,
   msg : {""}]
  \cup [kind : {"json_error"}, sentiment : {"neutral"}, confidence : {FALLBACK_CONFIDENCE},
        msg : {"Failed to parse LLM response"}]
  \cup [kind : {"error"}, sentiment : {"neutral"}, confidence : {FALLBACK_CONFIDENCE},
        msg : {"provider unavailable"}]

\* An empty-text result that carries an error tag like the classifier fallbacks.
EmptyTextResult_tagged ==
  [categories |-> << "General" >>, sentiment |-> "neutral", confidence |-> FALLBACK_CONFIDENCE,
   error |-> "empty transcription"]

\* lines 166-171: the result for an empty text
EmptyTextResult ==
  [categories |-> << "General" >>, sentiment |-> "neutral", confidence |-> FALLBACK_CONFIDENCE]

\* lines 225-237
openai_categories(text) ==
  LET c1 == IF any_word(text, OPENAI_AUTOMOTIVE) THEN << "Automotive" >> ELSE << >>
      c2 == IF any_word(text, OPENAI_WILDLIFE) THEN << "Wildlife" >> ELSE << >>
      c3 == IF any_word(text, OPENAI_OCEAN) THEN << "Ocean/Marine" >> ELSE << >>
      cs == c1 \o c2 \o c3
  IN IF cs = << >> THEN << "General" >> ELSE cs

\* lines 252-265
anthropic_categories(text) ==
  LET c1 == IF any_word(text, ANTHROPIC_TRANSPORT) THEN << "Transportation" >> ELSE << >>
      c2 == IF any_word(text, ANTHROPIC_ANIMALS) THEN << "Animals & Wildlife" >> ELSE << >>
      c3 == IF any_word(text, ANTHROPIC_MARINE) THEN << "Marine & Aquatic" >> ELSE << >>
      cs == c1 \o c2 \o c3
  IN IF cs = << >> THEN << "Miscellaneous" >> ELSE cs

\* random.choice at lines 125-129
Transcriptions == {TranscriptCars, TranscriptEagles, TranscriptDiving}

\* the text arguments of the direct calls of categorize_transcription
CallTexts == {TextEmpty, TextA, TextB}

\* The classifiers are pure in the text: their category lists are tabulated
\* once over every text the model passes to them.
Texts == Transcriptions \cup CallTexts
OpenAICategories == [text \in Texts |-> openai_categories(text)]
AnthropicCategories == [text \in Texts |-> anthropic_categories(text)]

\* lines 208-301: the result returned for one outcome of the provider call
mock_llm_categorization(text, provider, outcome) ==
  IF outcome.kind = "ok"
  THEN IF provider = OPENAI
       THEN [categories |-> OpenAICategories[text], sentiment |-> outcome.sentiment,
             confidence |-> outcome.confidence, model |-> "gpt-4"]
       ELSE [categories |-> AnthropicCategories[text], sentiment |-> outcome.sentiment,
             confidence |-> outcome.confidence, model |-> "claude-3-opus"]
  ELSE [categories |-> << "General" >>, sentiment |-> "neutral",
        confidence |-> FALLBACK_CONFIDENCE, error |-> outcome.msg]

\* ------------------------------------------------------------ expiring caches
\* A lookup that still accepts an entry at the instant it expires.
cache_valid_at_expiry(cache, key, t) == key \in DOMAIN cache /\ cache[key].expires_at >= t

\* A lookup that accepts only entries that have expired.
cache_valid_reversed(cache, key, t) == key \in DOMAIN cache /\ cache[key].expires_at < t

\* lines 183 and 311: key in cache and cache[key]['expires_at'] > datetime.now()
cache_valid(cache, key, t) == key \in DOMAIN cache /\ cache[key].expires_at > t

\* lines 200-203 and 321-324: cache[key] = {value, expires_at: now + 24 hours}
cache_put(cache, key, value, t) ==
  [k \in DOMAIN cache \cup {key} |->
     IF k = key THEN [value |-> value, expires_at |-> t + CACHE_TTL_HOURS] ELSE cache[k]]

\* lines 346-351: the number of entries not yet expired
cache_size(cache, t) == Cardinality({k \in DOMAIN cache : cache[k].expires_at > t})

\* ---------------------------------------------------------------------- state
VARIABLES
  now,                       \* datetime.now(), in hours
  job_queue,                 \* line 53: job id -> job dict
  user_model_cache,          \* line 54: user id -> [value, expires_at]
  llm_categorization_cache,  \* line 55: cache key -> [value, expires_at]
  request,                   \* transcribe_audio handlers in flight: job id -> locals
  worker,                    \* process_transcription threads: job id -> locals
  cat,                       \* categorize_transcription calls: thread -> locals
  ncalls                     \* history: number of direct calls begun

vars ==
  << now, job_queue, user_model_cache, llm_categorization_cache, request, worker, cat,
     ncalls >>

JobIds == 1..MaxConcurrentJobs
Callers == {0 - c : c \in 1..NumCallers}
Threads == JobIds \cup Callers

\* X-User-ID of a submission: absent or a user id
RequestUsers == {None, Some("u1")}

\* the user_id arguments of the direct calls of categorize_transcription
CallUsers == {None, Some("u1")}

\* The provider outcomes the direct calls draw: two sentiments at the lower
\* confidence.
CallOutcomes(provider) ==
  {o \in LLMOutcomes(provider) :
     o.kind = "ok" /\ o.sentiment # "neutral" /\ o.confidence \in {65, 70}}

\* str(e) of the exceptions a worker can meet
ErrorMessages == {"stdout closed", "timed out"}

IdleFrame ==
  [pc |-> "idle", text |-> << >>, user_id |-> None, provider |-> "", model |-> "",
   result |-> None, stored_at |-> None]

NoWorker ==
  [pc |-> "none", step |-> 0, transcription |-> << >>, categories |-> None, exc |-> None]

Init ==
  /\ now = 0
  /\ job_queue = << >>
  /\ user_model_cache = << >>
  /\ llm_categorization_cache = << >>
  /\ request = << >>
  /\ worker = [j \in JobIds |-> NoWorker]
  /\ cat = [t \in Threads |-> IdleFrame]
  /\ ncalls = 0

\* dict[key] = value on a dict that may not have the key yet
set_item(d, key, value) == [k \in DOMAIN d \cup {key} |-> IF k = key THEN value ELSE d[k]]

\* dict.get(key): None when the key is absent
get_item(d, key) == IF key \in DOMAIN d THEN d[key] ELSE None

\* the passing of time between two statements
Tick(limit) ==
  /\ now + TickHours <= limit
  /\ now' = now + TickHours
  /\ UNCHANGED << job_queue, user_model_cache, llm_categorization_cache, request, worker,
                  cat, ncalls >>

\* --------------------------------------------------- categorize_transcription
\* A service that answers from the cache only callers without a user id and
\* classifies afresh for every user.
categorize_transcription_per_user(t, text, user_id) ==
  /\ cat[t].pc = "idle"
  /\ LET key == cache_key(text)
         f == [IdleFrame EXCEPT !.text = text, !.user_id = user_id]
     IN cat' = [cat EXCEPT ![t] =
          IF text = << >>
          THEN [f EXCEPT !.pc = "ret", !.result = Some(EmptyTextResult)]
          ELSE IF ~Truthy(user_id) /\ cache_valid(llm_categorization_cache, key, now)
               THEN [f EXCEPT !.pc = "ret",
                              !.result = Some(llm_categorization_cache[key].value)]
               ELSE [f EXCEPT !.pc = IF Truthy(user_id) THEN "l191" ELSE "l197",
                              !.provider = OPENAI]]
  /\ UNCHANGED << user_model_cache, llm_categorization_cache >>

\* lines 166-189: the empty-text result, the cache key, the cache lookup, and on a
\* miss the default provider and the choice whether to ask for the user's model
categorize_transcription(t, text, user_id) ==
  /\ cat[t].pc = "idle"
  /\ LET key == cache_key(text)
         f == [IdleFrame EXCEPT !.text = text, !.user_id = user_id]
     IN cat' = [cat EXCEPT ![t] =
          IF text = << >>
          THEN [f EXCEPT !.pc = "ret", !.result = Some(EmptyTextResult)]
          ELSE IF cache_valid(llm_categorization_cache, key, now)
               THEN [f EXCEPT !.pc = "ret",
                              !.result = Some(llm_categorization_cache[key].value)]
               ELSE [f EXCEPT !.pc = IF Truthy(user_id) THEN "l191" ELSE "l197",
                              !.provider = OPENAI]]
  /\ UNCHANGED << user_model_cache, llm_categorization_cache >>

CatFrame == UNCHANGED << now, job_queue, request, worker, ncalls >>

\* lines 311-313: get_user_model_from_db, the cache lookup
get_user_model_from_db(t) ==
  /\ cat[t].pc = "l191"
  /\ LET u == cat[t].user_id[1]
     IN cat' = [cat EXCEPT ![t] =
          IF cache_valid(user_model_cache, u, now)
          THEN [@ EXCEPT !.pc = "l197", !.provider = user_model_cache[u].value]
          ELSE [@ EXCEPT !.pc = "l317"]]
  /\ UNCHANGED << user_model_cache, llm_categorization_cache >>
  /\ CatFrame

\* lines 317-318: the slow database query returns a provider
db_query(t, model) ==
  /\ cat[t].pc = "l317"
  /\ cat' = [cat EXCEPT ![t].pc = "l321", ![t].model = model]
  /\ UNCHANGED << user_model_cache, llm_categorization_cache >>
  /\ CatFrame

\* lines 192-193: the query raises; the default provider of line 188 stays
db_query_raises(t) ==
  /\ cat[t].pc = "l317"
  /\ cat' = [cat EXCEPT ![t].pc = "l197"]
  /\ UNCHANGED << user_model_cache, llm_categorization_cache >>
  /\ CatFrame

\* A resolver that stores the model it fetched but hands back the default.
user_model_store_returns_default(t) ==
  /\ cat[t].pc = "l321"
  /\ user_model_cache' = cache_put(user_model_cache, cat[t].user_id[1], cat[t].model, now)
  /\ cat' = [cat EXCEPT ![t].pc = "l197", ![t].provider = OPENAI]
  /\ UNCHANGED llm_categorization_cache
  /\ CatFrame

\* lines 321-326 and 191: store the model for 24 hours and return it
user_model_store(t) ==
  /\ cat[t].pc = "l321"
  /\ user_model_cache' = cache_put(user_model_cache, cat[t].user_id[1], cat[t].model, now)
  /\ cat' = [cat EXCEPT ![t].pc = "l197", ![t].provider = cat[t].model]
  /\ UNCHANGED llm_categorization_cache
  /\ CatFrame

\* line 197: the provider call
llm_call(t, outcome) ==
  /\ cat[t].pc = "l197"
  /\ cat' = [cat EXCEPT ![t].pc = "l200",
                        ![t].result = Some(mock_llm_categorization(cat[t].text, cat[t].provider, outcome))]
  /\ UNCHANGED << user_model_cache, llm_categorization_cache >>
  /\ CatFrame

\* lines 200-205: cache the result for 24 hours and return it
llm_cache_store(t) ==
  /\ cat[t].pc = "l200"
  /\ llm_categorization_cache' =
       cache_put(llm_categorization_cache, cache_key(cat[t].text), cat[t].result[1], now)
  /\ cat' = [cat EXCEPT ![t].pc = "ret", ![t].stored_at = Some(now)]
  /\ UNCHANGED user_model_cache
  /\ CatFrame

\* ------------------------------------------------------------ transcribe_audio
\* lines 383-402: the handler draws a fresh job id (uuid4) and evaluates the
\* dict literal up to created_at
transcribe_audio(user_id, limit) ==
  /\ \E j \in 1..limit :
       /\ j \notin DOMAIN request \cup DOMAIN job_queue
       /\ \A i \in JobIds : i < j => i \in DOMAIN request \cup DOMAIN job_queue
       /\ request' = set_item(request, j, [pc |-> "l403", user_id |-> user_id, created_at |-> now])
  /\ UNCHANGED << now, job_queue, user_model_cache, llm_categorization_cache, worker, cat,
                  ncalls >>

\* lines 390-392: no audio file in the request, status 400
transcribe_audio_no_file == UNCHANGED vars

\* lines 398-408: updated_at is evaluated and the finished dict is stored
job_insert(j) ==
  /\ j \in DOMAIN request /\ request[j].pc = "l403"
  /\ job_queue' = set_item(job_queue, j,
       [id |-> j, status |-> PENDING, progress |-> 0,
        created_at |-> request[j].created_at, updated_at |-> now,
        completed_at |-> None, result |-> None, error |-> None,
        user_id |-> request[j].user_id])
  /\ request' = [request EXCEPT ![j].pc = "l418"]
  /\ UNCHANGED << now, user_model_cache, llm_categorization_cache, worker, cat,
                  ncalls >>

\* A handler that may start the thread before it has stored the job's dict.
start_transcription_job_before_insert(j) ==
  /\ j \in DOMAIN request /\ request[j].pc \in {"l403", "l418"} /\ worker[j].pc = "none"
  /\ worker' = [worker EXCEPT ![j].pc = "l108"]
  /\ request' = [request EXCEPT ![j].pc = IF @ = "l418" THEN "returned" ELSE @]
  /\ UNCHANGED << now, job_queue, user_model_cache, llm_categorization_cache, cat,
                  ncalls >>

\* lines 369-376 and 418-426: the thread is started and the handler returns
start_transcription_job(j) ==
  /\ j \in DOMAIN request /\ request[j].pc = "l418"
  /\ worker' = [worker EXCEPT ![j].pc = "l108"]
  /\ request' = [request EXCEPT ![j].pc = "returned"]
  /\ UNCHANGED << now, job_queue, user_model_cache, llm_categorization_cache, cat,
                  ncalls >>

\* lines 411-418 and 427-429: a print, the read of the upload or the thread start
\* raises after the job was stored; the handler answers 500 and no worker runs
transcribe_audio_raises(j) ==
  /\ j \in DOMAIN request /\ request[j].pc = "l418"
  /\ request' = [request EXCEPT ![j].pc = "l427"]
  /\ UNCHANGED << now, job_queue, user_model_cache, llm_categorization_cache, worker, cat,
                  ncalls >>

\* ------------------------------------------------------- process_transcription
WorkerFrame ==
  UNCHANGED << now, user_model_cache, llm_categorization_cache, request, cat,
               ncalls >>

\* job_queue[job_id][key] = value, and the worker moves on to pc
job_write(j, key, value, pc) ==
  /\ job_queue' = [job_queue EXCEPT ![j] = set_item(@, key, value)]
  /\ worker' = [worker EXCEPT ![j].pc = pc]
  /\ WorkerFrame

\* A step progress that rounds to the nearest integer where int() truncates.
step_progress_rounded(step) ==
  10 + (2 * (step + 1) * 80 + processing_steps) \div (2 * processing_steps)

\* line 119: 10 + int((step + 1) * (80 / processing_steps)); the float product
\* truncates to the integer quotient for steps 0..2 (36, 63, 90)
step_progress(step) == 10 + ((step + 1) * 80) \div processing_steps

\* line 108
pt_status_processing(j) == worker[j].pc = "l108" /\ job_write(j, "status", PROCESSING, "l109")

\* line 109
pt_progress_start(j) == worker[j].pc = "l109" /\ job_write(j, "progress", 10, "l110")

\* line 110
pt_updated_start(j) == worker[j].pc = "l110" /\ job_write(j, "updated_at", now, "l117")

\* lines 117-120: the delay ends and the step's progress is written
pt_progress_step(j) ==
  worker[j].pc = "l117" /\ job_write(j, "progress", step_progress(worker[j].step), "l121")

\* lines 121, 122 and 115: updated_at is written, then the next step or the end
\* of the loop
pt_updated_step(j) ==
  /\ worker[j].pc = "l121"
  /\ job_queue' = [job_queue EXCEPT ![j] = set_item(@, "updated_at", now)]
  /\ worker' = [worker EXCEPT ![j] =
       IF @.step + 1 < processing_steps
       THEN [@ EXCEPT !.pc = "l117", !.step = @ + 1]
       ELSE [@ EXCEPT !.pc = "l125"]]
  /\ WorkerFrame

\* lines 125-133: the transcription is drawn and categorize_transcription is
\* called with it, user_id left at its default
pt_categorize(j, text) ==
  /\ worker[j].pc = "l125"
  /\ categorize_transcription(j, text, None)
  /\ worker' = [worker EXCEPT ![j].pc = "l133", ![j].transcription = text]
  /\ UNCHANGED << now, job_queue, request, ncalls >>

\* A worker that treats a categorization result carrying an error tag as an
\* exception of its own.
pt_status_completed_unless_error(j) ==
  /\ worker[j].pc = "l133" /\ cat[j].pc = "ret"
  /\ IF "error" \in DOMAIN cat[j].result[1]
     THEN /\ worker' = [worker EXCEPT ![j].pc = "l148", ![j].exc = Some(cat[j].result[1].error)]
          /\ UNCHANGED job_queue
     ELSE /\ job_queue' = [job_queue EXCEPT ![j] = set_item(@, "status", COMPLETED)]
          /\ worker' = [worker EXCEPT ![j].pc = "l137", ![j].categories = cat[j].result]
  /\ cat' = [cat EXCEPT ![j] = IdleFrame]
  /\ UNCHANGED << now, user_model_cache, llm_categorization_cache, request,
                  ncalls >>

\* lines 133 and 136: the call returns and the status is written
pt_status_completed(j) ==
  /\ worker[j].pc = "l133" /\ cat[j].pc = "ret"
  /\ job_queue' = [job_queue EXCEPT ![j] = set_item(@, "status", COMPLETED)]
  /\ worker' = [worker EXCEPT ![j].pc = "l137", ![j].categories = cat[j].result]
  /\ cat' = [cat EXCEPT ![j] = IdleFrame]
  /\ UNCHANGED << now, user_model_cache, llm_categorization_cache, request,
                  ncalls >>

\* line 137
pt_progress_done(j) == worker[j].pc = "l137" /\ job_write(j, "progress", 100, "l138")

\* line 138
pt_result(j) ==
  worker[j].pc = "l138" /\ job_write(j, "result", Some(worker[j].transcription), "l139")

\* line 139
pt_categories(j) ==
  worker[j].pc = "l139" /\ job_write(j, "categories", worker[j].categories, "l140")

\* line 140
pt_completed_at(j) == worker[j].pc = "l140" /\ job_write(j, "completed_at", Some(now), "l141")

\* line 141
pt_updated_done(j) == worker[j].pc = "l141" /\ job_write(j, "updated_at", now, "l142")

\* lines 142-145: the prints, and the thread ends
pt_return(j) ==
  /\ worker[j].pc = "l142"
  /\ worker' = [worker EXCEPT ![j].pc = "l145"]
  /\ UNCHANGED job_queue
  /\ WorkerFrame

\* Where the worker is when a statement of the try block that calls out of it
\* raises: the delay (117) or the print before it (122), the transcription, the
\* print or the categorization call (125-133), the last prints (142, 143).
RaisePoints == {"l117", "l125", "l142"}

\* line 146: an exception leaves the try block
pt_raise(j, msg) ==
  /\ worker[j].pc \in RaisePoints
  /\ worker' = [worker EXCEPT ![j].pc = "l148", ![j].exc = Some(msg)]
  /\ UNCHANGED job_queue
  /\ WorkerFrame

\* A handler that also resets progress when it marks the job FAILED.
pt_status_failed_resets_progress(j) ==
  /\ worker[j].pc = "l148"
  /\ job_queue' = [job_queue EXCEPT ![j] = set_item(set_item(@, "status", FAILED), "progress", 0)]
  /\ worker' = [worker EXCEPT ![j].pc = "l150"]
  /\ WorkerFrame

\* A handler that records a fixed text in place of the exception's message.
pt_error_fixed_text(j) ==
  worker[j].pc = "l150" /\ job_write(j, "error", Some("Transcription failed"), "l151")

\* lines 148-149
pt_status_failed(j) ==
  /\ worker[j].pc = "l148"
  /\ IF j \in DOMAIN job_queue
     THEN job_write(j, "status", FAILED, "l150")
     ELSE /\ worker' = [worker EXCEPT ![j].pc = "l153"]
          /\ UNCHANGED job_queue
          /\ WorkerFrame

\* line 150
pt_error(j) == worker[j].pc = "l150" /\ job_write(j, "error", Some(worker[j].exc[1]), "l151")

\* lines 151-153
pt_updated_failed(j) == worker[j].pc = "l151" /\ job_write(j, "updated_at", now, "l153")

\* ------------------------------------------------------------------ read routes
\* A fetch that indexes the registry without the membership test of line 442 and
\* answers the KeyError with a server error.
job_status_response_unchecked(j) ==
  IF j \notin DOMAIN job_queue
  THEN [code |-> 500, error |-> "Server error"]
  ELSE [code |-> 200, job |-> job_queue[j]]

\* lines 442-454: 404, or a copy of the dict as it is at the instant of the read
job_status_response(j) ==
  IF j \notin DOMAIN job_queue
  THEN [code |-> 404, error |-> "Job not found"]
  ELSE [code |-> 200, job |-> job_queue[j]]

\* lines 431-454: the route changes nothing
get_job_status(j) == UNCHANGED vars

\* lines 471-477: every dict of the queue
all_jobs_response == [code |-> 200, jobs |-> job_queue]

\* lines 456-480
get_all_jobs == UNCHANGED vars

\* lines 346-358
cache_stats_response ==
  [code |-> 200,
   user_model_cache_entries |-> cache_size(user_model_cache, now),
   llm_categorization_cache_entries |-> cache_size(llm_categorization_cache, now)]

\* lines 341-358
get_cache_stats == UNCHANGED vars

\* ----------------------------------------------------------------- the program
\* One step of job j's worker thread, the calls it makes included.  Line 133
\* passes no user_id, so the thread never enters get_user_model_from_db.
WorkerStep(j) ==
  \/ pt_status_processing(j) \/ pt_progress_start(j) \/ pt_updated_start(j)
  \/ pt_progress_step(j) \/ pt_updated_step(j)
  \/ (\E text \in Transcriptions : pt_categorize(j, text))
  \/ (\E o \in LLMOutcomes(cat[j].provider) : llm_call(j, o))
  \/ llm_cache_store(j)
  \/ pt_status_completed(j) \/ pt_progress_done(j) \/ pt_result(j) \/ pt_categories(j)
  \/ pt_completed_at(j) \/ pt_updated_done(j) \/ pt_return(j)
  \/ pt_status_failed(j) \/ pt_error(j) \/ pt_updated_failed(j)

Next ==
  \/ Tick(MaxTime)
  \/ \E u \in RequestUsers : transcribe_audio(u, MaxJobs)
  \/ transcribe_audio_no_file
  \/ \E j \in JobIds : job_insert(j)
  \/ \E j \in JobIds : start_transcription_job(j)
  \/ \E j \in JobIds : transcribe_audio_raises(j)
  \/ \E j \in JobIds : WorkerStep(j)
  \/ \E j \in JobIds, msg \in ErrorMessages : pt_raise(j, msg)
  \/ \E j \in JobIds : get_job_status(j)
  \/ get_all_jobs
  \/ get_cache_stats

Spec == Init /\ [][Next]_vars

\* ------------------------------------------- the categorization service alone
\* Threads that call categorize_transcription directly, with any text and user.
call(c, text, user_id) ==
  /\ ncalls < MaxCalls
  /\ ncalls' = ncalls + 1
  /\ categorize_transcription(c, text, user_id)
  /\ UNCHANGED << now, job_queue, request, worker >>

\* the call returns; the caller keeps the text, the result and whether the call
\* stored it until its next call
call_return(c) ==
  /\ cat[c].pc = "ret"
  /\ cat' = [cat EXCEPT ![c] =
       [IdleFrame EXCEPT !.text = cat[c].text, !.result = cat[c].result,
                         !.stored_at = cat[c].stored_at]]
  /\ UNCHANGED << now, job_queue, user_model_cache, llm_categorization_cache, request,
                  worker, ncalls >>

CatNext ==
  \/ Tick(MaxTime)
  \/ \E c \in Callers, text \in CallTexts, u \in CallUsers : call(c, text, u)
  \/ \E c \in Callers : get_user_model_from_db(c)
  \/ \E c \in Callers, m \in Providers : db_query(c, m)
  \/ \E c \in Callers : db_query_raises(c)
  \/ \E c \in Callers : user_model_store(c)
  \/ \E c \in Callers : \E o \in CallOutcomes(cat[c].provider) : llm_call(c, o)
  \/ \E c \in Callers : llm_cache_store(c)
  \/ \E c \in Callers : call_return(c)

CatSpec == Init /\ [][CatNext]_vars

\* --------------------------------------- the service with several user ids
\* Direct calls with an absent, an empty and two distinct user ids, with the
\* two texts that share a cache key and one draw of the classifier.
ResolverTexts == {TextA, TextB}
ResolverUsers == {None, Some(""), Some("u1"), Some("u2")}
ResolverOutcomes(provider) == {o \in CallOutcomes(provider) : o.sentiment = "positive"}

UserNext ==
  \/ Tick(MaxTime)
  \/ \E c \in Callers, text \in ResolverTexts, u \in ResolverUsers : call(c, text, u)
  \/ \E c \in Callers : get_user_model_from_db(c)
  \/ \E c \in Callers, m \in Providers : db_query(c, m)
  \/ \E c \in Callers : db_query_raises(c)
  \/ \E c \in Callers : user_model_store(c)
  \/ \E c \in Callers : \E o \in ResolverOutcomes(cat[c].provider) : llm_call(c, o)
  \/ \E c \in Callers : llm_cache_store(c)
  \/ \E c \in Callers : call_return(c)

UserSpec == Init /\ [][UserNext]_vars

\* Fair scheduling: a started handler gets to start its thread, and a worker
\* thread that can take a step eventually takes one.  Raising is never forced.
LiveSpec ==
  /\ Spec
  /\ \A j \in JobIds : WF_vars(job_insert(j))
  /\ \A j \in JobIds : WF_vars(start_transcription_job(j))
  /\ \A j \in JobIds : WF_vars(WorkerStep(j))

\* ------------------------------------------------------------------ properties
Terminal == {COMPLETED, FAILED}

\* PENDING -> PROCESSING -> COMPLETED or FAILED, one arrow at a time
StatusStep(s, t) ==
  \/ s = t
  \/ s = PENDING /\ t = PROCESSING
  \/ s = PROCESSING /\ t \in Terminal

\* C1: a job's stored status changes only along PENDING -> PROCESSING -> COMPLETED
\* or FAILED: never from PENDING to a terminal status, never back to PENDING, and
\* never again once it is COMPLETED or FAILED, wherever an error is raised.
C1_StatusTransitions ==
  [][\A j \in DOMAIN job_queue : StatusStep(job_queue[j].status, job_queue'[j].status)]_vars

\* The fields a job has after one whole step of its worker: creation, start,
\* a progress step, completion, failure.
WholeStep(job) ==
  \/ job.status = PENDING /\ job.progress = 0
  \/ job.status = PROCESSING
       /\ job.progress \in {10} \cup {step_progress(k) : k \in 0..(processing_steps - 1)}
  \/ job.status = COMPLETED
       /\ job.progress = 100
       /\ job.result # None
       /\ get_item(job, "categories") # None
       /\ job.completed_at # None
  \/ job.status = FAILED /\ job.error # None

\* C2: every snapshot that fetch-one-job returns, and every element that
\* list-all-jobs returns, has the fields one whole worker step left, never a mix
\* of two steps (no PROCESSING with progress 0, for one).
C2_SnapshotsAreWholeSteps ==
  /\ \A j \in JobIds :
       job_status_response(j).code = 200 => WholeStep(job_status_response(j).job)
  /\ \A j \in DOMAIN all_jobs_response.jobs : WholeStep(all_jobs_response.jobs[j])

\* C3: every job whose status is COMPLETED has result and categories and no
\* error, and every job whose status is FAILED has an error and neither result
\* nor categories.
C3_ExactlyOneOutcome ==
  \A j \in DOMAIN job_queue :
    LET job == job_queue[j]
        has_result == job.result # None /\ get_item(job, "categories") # None
        no_result == job.result = None /\ get_item(job, "categories") = None
    IN /\ job.status = COMPLETED => has_result /\ job.error = None
       /\ job.status = FAILED => job.error # None /\ no_result

\* a response with progress 100, a non-empty result and a non-empty category list
CompleteAnswer(job) ==
  /\ job.progress = 100
  /\ job.result # None /\ job.result[1] # << >>
  /\ get_item(job, "categories") # None /\ job.categories[1].categories # << >>

\* C4: a fetch that returns COMPLETED returns progress 100, a non-empty result
\* and non-empty categories, and so does every later fetch of that job.
C4_CompletedAnswerIsComplete ==
  /\ [](\A j \in DOMAIN job_queue :
          job_status_response(j).job.status = COMPLETED
            => CompleteAnswer(job_status_response(j).job))
  /\ [][\A j \in DOMAIN job_queue :
          job_queue[j].status = COMPLETED /\ CompleteAnswer(job_queue[j])
            => CompleteAnswer(job_queue'[j])]_vars

\* C5: progress is an integer in 0..100, never decreases while the status is
\* PENDING or PROCESSING, and never changes once the status is FAILED.
C5_ProgressMonotone ==
  /\ [](\A j \in DOMAIN job_queue : job_queue[j].progress \in 0..100)
  /\ [][\A j \in DOMAIN job_queue :
          /\ job_queue[j].status \in {PENDING, PROCESSING}
               => job_queue'[j].progress >= job_queue[j].progress
          /\ job_queue[j].status = FAILED
               => job_queue'[j].progress = job_queue[j].progress]_vars

\* a job failed between two progress steps keeps the progress of the first
C5_Witness ==
  \E j \in DOMAIN job_queue :
    /\ job_queue[j].status = FAILED /\ worker[j].pc = "l153"
    /\ job_queue[j].progress = step_progress(0)

\* C6: under fair scheduling, with every external call returning or raising,
\* every created job eventually has status COMPLETED or FAILED; none stays
\* PENDING or PROCESSING forever.
C6_EveryJobTerminates ==
  \A j \in JobIds :
    (j \in DOMAIN job_queue) ~> (j \in DOMAIN job_queue /\ job_queue[j].status \in Terminal)

\* C7: after an error raised anywhere in a worker's run the job ends FAILED with
\* the error's message, updated_at is refreshed, progress stays what the worker
\* last wrote, and the worker writes nothing more.
C7_FailureHandling ==
  /\ \A j \in JobIds : (worker[j].exc # None) ~> (worker[j].pc = "l153")
  /\ [](\A j \in DOMAIN job_queue :
          worker[j].exc # None /\ worker[j].pc = "l153"
            => job_queue[j].status = FAILED /\ job_queue[j].error = worker[j].exc)
  /\ [][\A j \in DOMAIN job_queue :
          /\ worker[j].exc # None => job_queue'[j].progress = job_queue[j].progress
          /\ worker[j].exc # None /\ worker[j].pc # "l153" /\ worker'[j].pc = "l153"
               => job_queue'[j].updated_at = now
          /\ worker[j].pc = "l153"
               => job_queue'[j] = job_queue[j] /\ worker'[j] = worker[j]]_vars

\* an error raised by the last prints, after completion was written
C7_Witness ==
  \E j \in DOMAIN job_queue :
    /\ worker[j].pc = "l153" /\ worker[j].exc # None
    /\ job_queue[j].progress = 100 /\ job_queue[j].updated_at > job_queue[j].created_at

\* C8: the worker calls the categorization service with the job's owner as
\* user_id, so that for a non-empty owner a cache miss asks the preference
\* resolver for that owner's provider.
C8_CategorizeWithOwner ==
  \A j \in DOMAIN job_queue : cat[j].pc # "idle" => cat[j].user_id = job_queue[j].user_id

\* caller t begins a call with a non-empty text in this step
BeginsCall(t) == cat[t].pc = "idle" /\ cat'[t].pc # "idle" /\ cat'[t].text # << >>

\* Caller c's last call stored its result and has returned; caller t now begins
\* a call whose text has the same cache key, less than 24 hours after that store.
SecondCall(c, t) ==
  /\ cat[c].pc = "idle" /\ cat[c].stored_at # None /\ cat[c].text # << >>
  /\ BeginsCall(t)
  /\ cache_key(cat'[t].text) = cache_key(cat[c].text)
  /\ now < cat[c].stored_at[1] + CACHE_TTL_HOURS

\* the call returns at once: no resolver, no classifier, no cache change
ReturnsAtOnce(t) ==
  /\ cat'[t].pc = "ret"
  /\ user_model_cache' = user_model_cache
  /\ llm_categorization_cache' = llm_categorization_cache

Lookup(cache, k, t) ==
  IF k \in DOMAIN cache /\ t < cache[k].expires_at THEN Some(cache[k].value) ELSE None

\* a store of v under k at time t overwrites k's entry and touches no other key
Stored(cache, after, k, v, t) ==
  /\ DOMAIN after = DOMAIN cache \cup {k}
  /\ after[k] = [value |-> v, expires_at |-> t + CACHE_TTL_HOURS]
  /\ \A other \in DOMAIN cache \ {k} : after[other] = cache[other]

\* C10: in both caches a lookup after a store and strictly before the stored
\* expiry returns the stored value, a lookup at or after the expiry or of an
\* absent key is a miss, and a store overwrites the entry of its key.
C10_CacheLookupAndStore ==
  [][\A t \in Callers :
       /\ BeginsCall(t) =>
            LET found == Lookup(llm_categorization_cache, cache_key(cat'[t].text), now)
            IN IF found # None
               THEN cat'[t].pc = "ret" /\ cat'[t].result = found
               ELSE cat'[t].pc \in {"l191", "l197"} /\ cat'[t].result = None
       /\ cat[t].pc = "l191" /\ cat'[t].pc # "l191" =>
            LET found == Lookup(user_model_cache, cat[t].user_id[1], now)
            IN IF found # None
               THEN cat'[t].pc = "l197" /\ cat'[t].provider = found[1]
               ELSE cat'[t].pc = "l317"
       /\ cat[t].pc = "l200" /\ cat'[t].pc # "l200" =>
            Stored(llm_categorization_cache, llm_categorization_cache',
                   cache_key(cat[t].text), cat[t].result[1], now)
       /\ cat[t].pc = "l321" /\ cat'[t].pc # "l321" =>
            Stored(user_model_cache, user_model_cache',
                   cat[t].user_id[1], cat[t].model, now)]_vars

\* a caller's second call misses at the very hour its first call's entry
\* expires, nobody else having called
C10_Witness ==
  \E t, c \in Callers :
    /\ ncalls = 2 /\ c # t /\ cat[c] = IdleFrame
    /\ cat[t].pc = "l197" /\ cat[t].text # << >>
    /\ cache_key(cat[t].text) \in DOMAIN llm_categorization_cache
    /\ llm_categorization_cache[cache_key(cat[t].text)].expires_at = now

\* C11: categorize called with an empty text, for any user_id and any cache
\* contents, returns exactly categories ["General"], sentiment "neutral",
\* confidence 0.5, changes neither cache and invokes neither the preference
\* resolver nor a classifier.
C11_EmptyTextShortCircuits ==
  [][\A t \in Callers :
       cat[t].pc = "idle" /\ cat'[t].pc # "idle" /\ cat'[t].text = << >> =>
         /\ cat'[t].pc = "ret"
         /\ cat'[t].result =
              Some([categories |-> << "General" >>, sentiment |-> "neutral", confidence |-> 50])
         /\ user_model_cache' = user_model_cache
         /\ llm_categorization_cache' = llm_categorization_cache]_vars

\* an empty-text call by a user answered while both caches hold entries
C11_Witness ==
  \E t \in Callers :
    /\ cat[t].pc = "ret" /\ cat[t].text = << >> /\ cat[t].user_id = Some("u1")
    /\ "u1" \in DOMAIN user_model_cache
    /\ DOMAIN llm_categorization_cache # {}

\* the degraded result of a failed provider call, tagged with the error
Degraded(msg) ==
  [categories |-> << "General" >>, sentiment |-> "neutral", confidence |-> 50, error |-> msg]

ProviderErrors == {"Failed to parse LLM response", "provider unavailable"}

\* C12: an error raised inside the provider-specific classifier is caught and
\* turned into the fallback result with an error tag, categorize returns
\* normally, and the worker's job then reaches COMPLETED with that result as its
\* categories instead of FAILED.
C12_ProviderFailureDoesNotFailJob ==
  /\ [][\A j \in JobIds :
          cat[j].pc = "l197" /\ cat'[j].pc # "l197" =>
            /\ cat'[j].pc = "l200" /\ cat'[j].result # None
            /\ \/ "error" \notin DOMAIN cat'[j].result[1]
               \/ \E msg \in ProviderErrors : cat'[j].result[1] = Degraded(msg)
            /\ worker'[j] = worker[j] /\ job_queue' = job_queue]_vars
  /\ \A j \in JobIds : \A msg \in ProviderErrors :
       (cat[j].pc = "l200" /\ cat[j].result = Some(Degraded(msg)))
         ~> (/\ j \in DOMAIN job_queue
             /\ job_queue[j].status = COMPLETED
             /\ get_item(job_queue[j], "categories") = Some(Degraded(msg))
             /\ job_queue[j].error = None
             /\ worker[j].exc = None)

\* a worker that returned after its provider call failed, the job COMPLETED
C12_Witness ==
  \E j \in DOMAIN job_queue :
    /\ worker[j].pc = "l145" /\ worker[j].exc = None
    /\ job_queue[j].status = COMPLETED
    /\ get_item(job_queue[j], "categories") = Some(Degraded("provider unavailable"))

\* C13: fetching a job id that is not in the registry answers NotFound, whatever
\* the registry holds and whatever submissions and workers are doing, and no
\* step but one of a submission, a worker or a categorize call changes a job or
\* a cache: a fetch changes none.
C13_UnknownJobIsNotFound ==
  /\ [](\A j \in JobIds \ DOMAIN job_queue :
          job_status_response(j) = [code |-> 404, error |-> "Job not found"])
  /\ [][(request' = request /\ worker' = worker /\ cat' = cat) =>
          /\ job_queue' = job_queue
          /\ user_model_cache' = user_model_cache
          /\ llm_categorization_cache' = llm_categorization_cache]_vars

\* an unknown id is fetched while another job is being processed and the
\* categorization cache holds an entry
C13_Witness ==
  \E j \in DOMAIN job_queue, k \in JobIds \ DOMAIN job_queue :
    /\ job_queue[j].status = PROCESSING /\ worker[j].pc = "l133"
    /\ DOMAIN llm_categorization_cache # {}
    /\ job_status_response(k).code = 404

\* C14: an accepted submission inserts exactly one new job in one step, under
\* an id no job had, with status PENDING, progress 0, result, categories, error
\* and completed_at empty, the supplied user id as owner and created_at equal
\* to updated_at; every job already there is unchanged.
C14_SubmissionInsertsFreshJob ==
  [][\A j \in JobIds :
       j \notin DOMAIN job_queue /\ j \in DOMAIN job_queue' =>
         /\ DOMAIN job_queue' = DOMAIN job_queue \cup {j}
         /\ \A i \in DOMAIN job_queue : job_queue'[i] = job_queue[i]
         /\ job_queue'[j].id = j
         /\ job_queue'[j].status = PENDING
         /\ job_queue'[j].progress = 0
         /\ job_queue'[j].result = None
         /\ get_item(job_queue'[j], "categories") = None
         /\ job_queue'[j].error = None
         /\ job_queue'[j].completed_at = None
         /\ job_queue'[j].user_id = request[j].user_id
         /\ job_queue'[j].created_at = job_queue'[j].updated_at]_vars

\* job j's worker thread has been started
Started(j) == worker[j].pc # "none"

\* C15: exactly one worker is ever started for each job, at its creation and
\* never a second time; the job's fields are written by that worker only, not
\* by another job's worker nor by a read; its id and owner never change.
C15_OneWorkerPerJob ==
  /\ \A j \in JobIds : (j \in DOMAIN job_queue) ~> Started(j)
  /\ [][\A j \in JobIds :
          /\ worker'[j].pc = "l108" /\ worker[j].pc # "l108" =>
               ~Started(j) /\ j \in DOMAIN job_queue
          /\ j \in DOMAIN job_queue =>
               /\ job_queue'[j] # job_queue[j] =>
                    worker'[j] # worker[j] /\ \A i \in JobIds \ {j} : worker'[i] = worker[i]
               /\ job_queue'[j].id = job_queue[j].id
               /\ job_queue'[j].user_id = job_queue[j].user_id]_vars

\* Job j's progress is the value of the list seq that the worker's position
\* calls for: seq[1] once PROCESSING is entered, seq[k + 1] after work step k,
\* seq[5] at completion.
ProgressAt(j, seq) ==
  /\ worker[j].pc = "l110" => job_queue[j].progress = seq[1]
  /\ worker[j].pc = "l121" => job_queue[j].progress = seq[worker[j].step + 2]
  /\ worker[j].pc = "l138" => job_queue[j].progress = seq[5]

\* a change of job j's progress goes from one value of seq to the next
ProgressStep(j, seq) ==
  job_queue'[j].progress # job_queue[j].progress =>
    \E i \in 1..Len(seq) : /\ job_queue'[j].progress = seq[i]
                           /\ job_queue[j].progress = IF i = 1 THEN 0 ELSE seq[i - 1]

\* C16 as stated: in a run with no error the progress values written are, in
\* order, 10 on entering PROCESSING, 37, 63, 90 after work steps 1, 2, 3, and
\* 100 at completion.
C16_ProgressValuesRounded ==
  /\ [](\A j \in DOMAIN job_queue :
          worker[j].exc = None => ProgressAt(j, << 10, 37, 63, 90, 100 >>))
  /\ [][\A j \in DOMAIN job_queue :
          worker'[j].exc = None => ProgressStep(j, << 10, 37, 63, 90, 100 >>)]_vars

\* C16 amended: the values are 10, then 10 + floor(k*80/3) after work step k,
\* that is 36, 63, 90, then 100.
C16_ProgressValuesTruncated ==
  /\ [](\A j \in DOMAIN job_queue :
          worker[j].exc = None => ProgressAt(j, << 10, 36, 63, 90, 100 >>))
  /\ [][\A j \in DOMAIN job_queue :
          worker'[j].exc = None => ProgressStep(j, << 10, 36, 63, 90, 100 >>)]_vars

\* a worker that ran to its end with no error
C16_Witness ==
  \E j \in DOMAIN job_queue :
    /\ worker[j].pc = "l145" /\ worker[j].exc = None
    /\ job_queue[j].status = COMPLETED /\ job_queue[j].progress = 100

\* C17: resolve(user_id) for a non-empty user_id returns the provider of an
\* unexpired user-model cache entry without the external lookup and without
\* changing the cache; otherwise it performs the lookup, stores the provider it
\* got (one of the two) under user_id with expiry store time + 24 hours, leaves
\* every other key unchanged, and returns that provider.
C17_ResolveUserModel ==
  [][\A t \in Callers :
       /\ cat[t].pc = "l191" /\ cat'[t].pc # "l191" =>
            LET u == cat[t].user_id[1]
            IN /\ u # ""
               /\ user_model_cache' = user_model_cache
               /\ IF u \in DOMAIN user_model_cache /\ now < user_model_cache[u].expires_at
                  THEN cat'[t].pc = "l197" /\ cat'[t].provider = user_model_cache[u].value
                  ELSE cat'[t].pc = "l317"
       /\ cat[t].pc = "l317" /\ cat'[t].pc = "l321" =>
            cat'[t].model \in {"openai", "anthropic"} /\ user_model_cache' = user_model_cache
       /\ cat[t].pc = "l321" /\ cat'[t].pc # "l321" =>
            LET u == cat[t].user_id[1]
            IN /\ cat'[t].pc = "l197" /\ cat'[t].provider = cat[t].model
               /\ DOMAIN user_model_cache' = DOMAIN user_model_cache \cup {u}
               /\ user_model_cache'[u] = [value |-> cat[t].model, expires_at |-> now + 24]
               /\ \A v \in DOMAIN user_model_cache \ {u} :
                    user_model_cache'[v] = user_model_cache[v]]_vars

\* a lookup for u2 stored the other provider next to u1's entry and returned it
C17_Witness ==
  \E t \in Callers :
    /\ cat[t].pc = "l197" /\ cat[t].user_id = Some("u2") /\ cat[t].provider = "anthropic"
    /\ "u1" \in DOMAIN user_model_cache /\ "u2" \in DOMAIN user_model_cache
    /\ user_model_cache["u2"] = [value |-> "anthropic", expires_at |-> now + 24]
    /\ user_model_cache["u1"].value = "openai"

\* C18: on a categorization-cache miss the provider is the default "openai"
\* when user_id is absent or empty, with no call of the preference resolver and
\* no change of the user-model cache, and also when the resolver raises; either
\* way categorize goes on to a result, stores it in the categorization cache
\* and returns it.
C18_DefaultProvider ==
  /\ [](\A t \in Callers :
          cat[t].pc \in {"l191", "l317", "l321"} =>
            cat[t].user_id # None /\ cat[t].user_id # Some(""))
  /\ [][\A t \in Callers :
          /\ BeginsCall(t) /\ cat'[t].pc # "ret"
               /\ (cat'[t].user_id = None \/ cat'[t].user_id = Some("")) =>
               /\ cat'[t].pc = "l197" /\ cat'[t].provider = "openai"
               /\ user_model_cache' = user_model_cache
          /\ cat[t].pc = "l317" /\ cat'[t].pc \notin {"l317", "l321"} =>
               /\ cat'[t].pc = "l197" /\ cat'[t].provider = "openai"
               /\ user_model_cache' = user_model_cache
          /\ cat[t].pc = "l197" /\ cat'[t].pc # "l197" =>
               /\ cat'[t].pc = "l200" /\ cat'[t].result # None
               /\ cat[t].provider = "openai" /\ "error" \notin DOMAIN cat'[t].result[1]
                    => cat'[t].result[1].model = "gpt-4"
          /\ cat[t].pc = "l200" /\ cat'[t].pc # "l200" =>
               /\ cat'[t].pc = "ret" /\ cat'[t].result = cat[t].result
               /\ cache_key(cat[t].text) \in DOMAIN llm_categorization_cache'
               /\ llm_categorization_cache'[cache_key(cat[t].text)] =
                    [value |-> cat[t].result[1], expires_at |-> now + 24]]_vars

\* a call with an empty user id that missed, stored the default provider's
\* result and returned it, the user-model cache knowing no user ""
C18_Witness ==
  \E t \in Callers :
    /\ cat[t].pc = "ret" /\ cat[t].user_id = Some("") /\ cat[t].stored_at # None
    /\ cat[t].result[1].model = "gpt-4"
    /\ "" \notin DOMAIN user_model_cache
    /\ llm_categorization_cache[cache_key(cat[t].text)].value = cat[t].result[1]

\* Caller c's call stored its result for a key; caller t, with any user id,
\* now begins a call whose text has the same key, less than 24 hours later.
LaterCall(c, t) ==
  /\ cat[c].pc \in {"idle", "ret"} /\ cat[c].stored_at # None
  /\ BeginsCall(t)
  /\ cache_key(cat'[t].text) = cache_key(cat[c].text)
  /\ now < cat[c].stored_at[1] + 24

InFlight(c, text) ==
  /\ cat[c].pc \in {"l191", "l317", "l321", "l197", "l200"}
  /\ cache_key(cat[c].text) = cache_key(text)

\* C20: overlapping categorize calls with the same cache key return identical
\* results: the classifier is not invoked for a key while another call in
\* flight for that key has invoked it, two calls in flight holding results for
\* one key hold the same result, and a store never replaces an unexpired
\* entry by a different result.
C20_SingleFlightPerKey ==
  [][/\ \A c, t \in Callers :
          c # t /\ cat[t].pc = "l197" /\ cat'[t].pc = "l200" /\ InFlight(c, cat[t].text)
          => cat[c].pc # "l200"
     /\ \A c, t \in Callers :
          c # t /\ cat[t].pc = "l200" /\ cat[c].pc = "l200" /\ InFlight(c, cat[t].text)
          => cat[c].result = cat[t].result
     /\ \A k \in DOMAIN llm_categorization_cache :
          cache_valid(llm_categorization_cache, k, now)
          => llm_categorization_cache'[k].value = llm_categorization_cache[k].value]_vars

\* C21: a job's worker is started only after the job's record was inserted,
\* and no record is ever removed: the set of job ids in the registry only
\* grows, every step of a worker (its start, each of its writes, the failure
\* handler's included) finds its job in the registry, and the failure handler
\* never takes the branch that skips its writes.
C21_WorkerNeverMissesItsJob ==
  [][/\ DOMAIN job_queue \subseteq DOMAIN job_queue'
     /\ \A j \in JobIds :
          worker'[j] # worker[j] => j \in DOMAIN job_queue /\ j \in DOMAIN job_queue'
     /\ \A j \in JobIds :
          worker[j].pc = "l148" /\ worker'[j].pc # "l148"
          => /\ worker'[j].pc = "l150"
             /\ job_queue'[j] = set_item(job_queue[j], "status", FAILED)]_vars

\* the failure handler of a started worker has written its three fields to the
\* record the handler inserted before it started the worker
C21_Witness ==
  \E j \in DOMAIN job_queue :
    /\ j \in DOMAIN request /\ request[j].pc = "returned"
    /\ worker[j].pc = "l153" /\ worker[j].exc # None
    /\ job_queue[j].status = FAILED /\ job_queue[j].error = worker[j].exc

====
